---------------------------- MODULE Spec2Model ----------------------------
(***************************************************************************)
(* Hybrid persistence layer of the study planner: StudyPlanStorage         *)
(* (src/src/lib/study-plan-storage.ts).  The Local Store is the browser's  *)
(* localStorage under two keys (plan list, activity log); the Remote Store *)
(* is the SupabaseStorage adapter, whose source is not part of the         *)
(* repository snapshot and is modelled from its four-operation contract.   *)
(*                                                                         *)
(* Asynchronous methods run their local phase atomically (JavaScript runs  *)
(* to the first await without interruption), then wait for the remote      *)
(* promise; other calls may run while they wait.                           *)
(***************************************************************************)
EXTENDS Integers, Sequences, FiniteSets, TLC

\* ------------------------------------------------------------------ bounds
MaxOps == 2         \* public calls in a run
MaxLogged == 53     \* logActivity calls in a run of SpecLog
LogVaried == 2      \* leading logActivity calls whose arguments vary

\* ------------------------------------------------------- program constants
LOG_CAP == 50       \* activities.slice(0, 50)

VARIABLES
    stored,     \* localStorage[STORAGE_KEY]: [tag, val]
    activity,   \* localStorage[ACTIVITY_KEY], parsed: newest entry first
    remote,     \* the Remote Store's plan table
    calls,      \* remote promises in flight, each with the call that awaits it
    ev,         \* the last step: the call it belongs to, its phase, its result
    now,        \* Date.now()
    nOps,       \* public calls made so far
    issued,     \* ids generated by savePlan / savePlanSync so far
    removed,    \* ids for which deletePlan / deletePlanSync returned true
    env,        \* NEXT_PUBLIC_SUPABASE_URL and _ANON_KEY as supabase.ts read them
    exec,       \* the executeSupabaseOperation call in hand: arguments, result
    auth        \* AuthProvider: its state (user, loading) and its mount effect

vars == <<stored, activity, remote, calls, ev, now, nOps, issued, removed,
         env, exec, auth>>

Min(a, b) == IF a < b THEN a ELSE b

\* ------------------------------------------------------------- id strings
\* An id string is [t, r, ws]: "plan_<t>_<r>" with ws = 1 when it carries
\* surrounding whitespace.  t >= 1 is Date.now() of this run and r the
\* Math.random() suffix.  With t = 0: r = 0 is the empty body, "" (ws = 0)
\* and "  " (ws = 1); r = 1 is an id generated in an earlier session; r = 2
\* is a non-empty string that names no plan.  t = -1 stands for a value that
\* is not a string (null).
Suffixes == {1, 2}
Clock == {1, 2}
NewId(t, r) == [t |-> t, r |-> r, ws |-> 0]
EmptyId == [t |-> 0, r |-> 0, ws |-> 0]
BlankId == [t |-> 0, r |-> 0, ws |-> 1]
NullId == [t |-> -1, r |-> 0, ws |-> 0]
IsString(id) == id.t >= 0
Falsy(id) == id = NullId \/ id = EmptyId
Trim(id) == [id EXCEPT !.ws = 0]

OldId == [t |-> 0, r |-> 1, ws |-> 0]
GhostId == [t |-> 0, r |-> 2, ws |-> 0]
Pad(id) == [id EXCEPT !.ws = 1]

Titles == {"A", "B"}
SaveTitles == {"A"}
TaskSeqs == {<<>>, <<"t1">>}
ActivityTypes == {"created", "updated", "completed_task"}

\* What savePlan receives: Omit<StoredStudyPlan, 'id'|'createdAt'|'updatedAt'>,
\* a plan no task of which is completed yet.
\* The fields no mutation reads (concurso, cargo, totalDays, plans, formData)
\* are carried by the spread unchanged and are left out of the record.
PlanData == [title : SaveTitles, completedTasks : {<<>>}]

\* ------------------------------------------------------------ Local Store
Absent == [tag |-> "absent", val |-> <<>>]
Corrupt == [tag |-> "corrupt", val |-> <<>>]
Array(s) == [tag |-> "array", val |-> s]

\* JSON.parse(stored) when the key holds a JSON array, [] when the key is
\* absent (stored is null) or the text does not parse (the catch).
getAllPlans(st) == IF st.tag = "array" THEN st.val ELSE <<>>

\* Array.prototype.findIndex on plan.id === id; 0 stands for -1.
findIndex(plans, id) ==
    IF \E i \in 1..Len(plans) : plans[i].id = id
    THEN CHOOSE i \in 1..Len(plans) :
            /\ plans[i].id = id
            /\ \A j \in 1..(i - 1) : plans[j].id # id
    ELSE 0

Ids(plans) == {plans[i].id : i \in 1..Len(plans)}


\* ----------------------------------------------------------- activity log
\* The description savePlan / updatePlan build from the type and the title.
Desc(type, planTitle) == <<type, planTitle>>

\* getActivityLog: the parsed log ([] when the key is absent).
getActivityLog(log) == log

\* logActivity without its slice(0, 50).
logActivityUncapped(log, type, planTitle, description, t) ==
    <<[type |-> type, planTitle |-> planTitle,
       timestamp |-> t, description |-> description]>> \o log

\* logActivity: unshift the new entry, keep slice(0, 50), write it back.
\* The entry's own id (activity_<now>_<random>) is read by no operation and
\* is left out of the entry.
logActivity(log, type, planTitle, description, t) ==
    LET newActivity == [type |-> type, planTitle |-> planTitle,
                        timestamp |-> t, description |-> description]
        activities == <<newActivity>> \o getActivityLog(log)
    IN  SubSeq(activities, 1, Min(Len(activities), LOG_CAP))

\* ------------------------------------------------------------------ plans
newPlan(planData, id, t) ==
    [id |-> id, title |-> planData.title, createdAt |-> t, updatedAt |-> t,
     completedTasks |-> planData.completedTasks]

\* Partial<StoredStudyPlan>: has is the set of fields present.
NoUpdates ==
    [has |-> {}, title |-> "A", completedTasks |-> <<>>, id |-> EmptyId,
     createdAt |-> 0, updatedAt |-> 0]
TitleUpdate(x) == [NoUpdates EXCEPT !.has = {"title"}, !.title = x]
TasksUpdate(s) == [NoUpdates EXCEPT !.has = {"completedTasks"}, !.completedTasks = s]
IdUpdate(i) == [NoUpdates EXCEPT !.has = {"id"}, !.id = i]
StampsUpdate(c, u) ==
    [NoUpdates EXCEPT !.has = {"createdAt", "updatedAt"},
                      !.createdAt = c, !.updatedAt = u]
UpdatesFor(plans) ==
    {NoUpdates, TitleUpdate("B")}
    \cup {TasksUpdate(s) : s \in TaskSeqs}
    \cup {IdUpdate(i) : i \in Ids(plans)}
    \cup {StampsUpdate(2, 0)}

\* { ...plans[index], ...updates, updatedAt: new Date().toISOString() }
updatedPlan(plan, updates, t) ==
    [id |-> IF "id" \in updates.has THEN updates.id ELSE plan.id,
     title |-> IF "title" \in updates.has THEN updates.title ELSE plan.title,
     createdAt |-> IF "createdAt" \in updates.has
                   THEN updates.createdAt ELSE plan.createdAt,
     updatedAt |-> t,
     completedTasks |-> IF "completedTasks" \in updates.has
                        THEN updates.completedTasks ELSE plan.completedTasks]

\* ---------------------------------------------------------------- results
\* What a call, or a phase of it, leaves behind: the two stored values, the
\* remote request it started (req, at most one), and what the caller gets:
\* ok (the boolean results), id (savePlan), out (loadFromSupabase), threw
\* (an exception instead of a result).
NoReq == <<>>
Req(op, sync, id, plans) ==
    <<[op |-> op, sync |-> sync, id |-> id, plans |-> plans, ok |-> TRUE]>>
Res(st, log, req, ok, id, out, threw) ==
    [stored |-> st, activity |-> log, req |-> req, ok |-> ok, id |-> id,
     out |-> out, threw |-> threw]
Failed(st, log) == Res(st, log, NoReq, FALSE, NullId, <<>>, FALSE)

\* savePlan up to its await, and savePlanSync whole: generate the id, push
\* and write the plan, log 'created', start SupabaseStorage.savePlan.
saveBody(st, log, planData, t, r, sync) ==
    LET plans == getAllPlans(st)
        id == NewId(t, r)
        p == newPlan(planData, id, t)
    IN  Res(Array(Append(plans, p)),
            logActivity(log, "created", p.title, Desc("created", p.title), t),
            Req("save", sync, id, <<p>>), TRUE, id, <<>>, FALSE)

\* savePlan on a getAllPlans without its try/catch: the SyntaxError of
\* JSON.parse leaves savePlan before anything is written.
savePlanParseUncaught(st, log, planData, t, r) ==
    IF st.tag = "corrupt" THEN Res(st, log, <<>>, FALSE, NullId, <<>>, TRUE)
    ELSE Res(Array(Append(IF st.tag = "array" THEN st.val ELSE <<>>,
                          newPlan(planData, NewId(t, r), t))),
             logActivity(log, "created", planData.title,
                         Desc("created", planData.title), t),
             <<[op |-> "save", sync |-> FALSE, id |-> NewId(t, r),
                plans |-> <<newPlan(planData, NewId(t, r), t)>>, ok |-> TRUE]>>,
             TRUE, NewId(t, r), <<>>, FALSE)

savePlan(st, log, planData, t, r) == saveBody(st, log, planData, t, r, FALSE)

savePlanSync(st, log, planData, t, r) == saveBody(st, log, planData, t, r, TRUE)

\* The logging block with `if (updates.completedTasks)` left out around the
\* 'updated' entry: every update is logged.
logUpdateAlways(log, oldCompletedCount, updates, upd, t) ==
    LET l1 == IF /\ "completedTasks" \in updates.has
                 /\ Len(updates.completedTasks) > oldCompletedCount
              THEN logActivity(log, "completed_task", upd.title,
                               Desc("completed_task", upd.title), t)
              ELSE log
    IN  logActivity(l1, "updated", upd.title, Desc("updated", upd.title), t)

\* The logging block of updatePlan and updatePlanSync, given the count each
\* of them takes as the old one.
logUpdate(log, oldCompletedCount, updates, upd, t) ==
    IF "completedTasks" \notin updates.has THEN log
    ELSE LET newCompletedCount == Len(updates.completedTasks)
             l1 == IF newCompletedCount > oldCompletedCount
                   THEN logActivity(log, "completed_task", upd.title,
                                    Desc("completed_task", upd.title), t)
                   ELSE log
         IN  logActivity(l1, "updated", upd.title, Desc("updated", upd.title), t)

\* updatePlan up to its await.  It reads plans[index].completedTasks after
\* plans[index] has been overwritten with updatedPlan.
updatePlan(st, log, id, updates, t) ==
    LET plans == getAllPlans(st)
        index == findIndex(plans, id)
    IN  IF index = 0 THEN Failed(st, log)
        ELSE LET upd == updatedPlan(plans[index], updates, t)
                 written == [plans EXCEPT ![index] = upd]
                 oldCompletedCount == Len(written[index].completedTasks)
             IN  Res(Array(written),
                     logUpdate(log, oldCompletedCount, updates, upd, t),
                     Req("update", FALSE, id, <<upd>>), TRUE, NullId, <<>>, FALSE)

\* updatePlanSync without its `index === -1` return: a miss reports success.
updatePlanSyncNoMissCheck(st, log, id, updates, t) ==
    LET plans == IF st.tag = "array" THEN st.val ELSE <<>>
        found == {i \in 1..Len(plans) : plans[i].id = id}
    IN  IF found = {} THEN Res(st, log, NoReq, TRUE, NullId, <<>>, FALSE)
        ELSE LET index == CHOOSE i \in found : \A j \in found : i <= j
                 upd == updatedPlan(plans[index], updates, t)
             IN  Res(Array([plans EXCEPT ![index] = upd]),
                     logUpdate(log, Len(plans[index].completedTasks),
                               updates, upd, t),
                     Req("update", TRUE, id, <<upd>>), TRUE, NullId, <<>>, FALSE)

\* updatePlanSync.  It copies the plan (oldPlan) before overwriting it.
updatePlanSync(st, log, id, updates, t) ==
    LET plans == getAllPlans(st)
        index == findIndex(plans, id)
    IN  IF index = 0 THEN Failed(st, log)
        ELSE LET oldPlan == plans[index]
                 upd == updatedPlan(plans[index], updates, t)
                 written == [plans EXCEPT ![index] = upd]
                 oldCompletedCount == Len(oldPlan.completedTasks)
             IN  Res(Array(written),
                     logUpdate(log, oldCompletedCount, updates, upd, t),
                     Req("update", TRUE, id, <<upd>>), TRUE, NullId, <<>>, FALSE)

\* deleteFromLocalStorage without its `planIndex === -1` return:
\* splice(-1, 1) removes the last plan.
deleteFromLocalStorageNoMissCheck(st, id) ==
    IF st.tag # "array" THEN [ok |-> FALSE, st |-> st]
    ELSE LET currentPlans == st.val
             found == {i \in 1..Len(currentPlans) : currentPlans[i].id = id}
             planIndex == IF found = {} THEN Len(currentPlans)
                          ELSE CHOOSE i \in found : \A j \in found : i <= j
         IN  IF currentPlans = <<>> THEN [ok |-> TRUE, st |-> st]
             ELSE [ok |-> TRUE,
                   st |-> Array(SubSeq(currentPlans, 1, planIndex - 1)
                                \o SubSeq(currentPlans, planIndex + 1,
                                          Len(currentPlans)))]

\* deleteFromLocalStorage filtering on plan.id !== id instead of the index:
\* every record with the id goes.
deleteFromLocalStorageById(st, id) ==
    IF st.tag # "array" THEN [ok |-> FALSE, st |-> st]
    ELSE IF \A i \in 1..Len(st.val) : st.val[i].id # id
         THEN [ok |-> FALSE, st |-> st]
         ELSE [ok |-> TRUE, st |-> Array(SelectSeq(st.val, LAMBDA p : p.id # id))]

\* deleteFromLocalStorage: [ok, st], the result and the value left stored.
deleteFromLocalStorage(st, id) ==
    IF st.tag # "array" THEN [ok |-> FALSE, st |-> st]
    ELSE LET currentPlans == st.val
             planIndex == findIndex(currentPlans, id)
         IN  IF planIndex = 0 THEN [ok |-> FALSE, st |-> st]
             ELSE [ok |-> TRUE,
                   st |-> Array(SubSeq(currentPlans, 1, planIndex - 1)
                                \o SubSeq(currentPlans, planIndex + 1,
                                          Len(currentPlans)))]

\* !id || typeof id !== 'string' || id.trim() === ''
InvalidId(id) == Falsy(id) \/ ~IsString(id) \/ Trim(id) = EmptyId

\* deletePlan passing id, not id.trim(), to the lookup and the deletions.
deletePlanUntrimmed(st, log, id) ==
    IF (id.t = -1) \/ (id.t = 0 /\ id.r = 0) THEN Failed(st, log)
    ELSE LET local == deleteFromLocalStorage(st, id)
         IN  IF ~local.ok THEN Failed(st, log)
             ELSE Res(local.st, log, Req("delete", FALSE, id, <<>>),
                      TRUE, NullId, <<>>, FALSE)

\* deletePlan taking the entries that name the deleted plan's title out of
\* the activity log.
deletePlanPurgingLog(st, log, id) ==
    IF id.t < 0 \/ (id.t = 0 /\ id.r = 0)
    THEN Res(st, log, <<>>, FALSE, [t |-> -1, r |-> 0, ws |-> 0], <<>>, FALSE)
    ELSE LET cleanId == [id EXCEPT !.ws = 0]
             local == deleteFromLocalStorage(st, cleanId)
             gone == {p \in {st.val[i] : i \in DOMAIN st.val} : p.id = cleanId}
         IN  IF ~local.ok
             THEN Res(st, log, <<>>, FALSE, [t |-> -1, r |-> 0, ws |-> 0], <<>>, FALSE)
             ELSE Res(local.st,
                      SelectSeq(log, LAMBDA a : \A p \in gone : a.planTitle # p.title),
                      <<[op |-> "delete", sync |-> FALSE, id |-> cleanId,
                         plans |-> <<>>, ok |-> TRUE]>>,
                      TRUE, [t |-> -1, r |-> 0, ws |-> 0], <<>>, FALSE)

\* deletePlan up to its await.
deletePlan(st, log, id) ==
    IF InvalidId(id) THEN Failed(st, log)
    ELSE LET cleanId == Trim(id)
             local == deleteFromLocalStorage(st, cleanId)
         IN  IF ~local.ok THEN Failed(st, log)
             ELSE Res(local.st, log, Req("delete", FALSE, cleanId, <<>>),
                      TRUE, NullId, <<>>, FALSE)

\* deletePlanSync without `if (success)` around the remote delete.
deletePlanSyncAlwaysRemote(st, log, id) ==
    IF id.t < 0 THEN Res(st, log, <<>>, FALSE, [t |-> -1, r |-> 0, ws |-> 0], <<>>, FALSE)
    ELSE LET success == deleteFromLocalStorage(st, [id EXCEPT !.ws = 0])
         IN  Res(success.st, log,
                 <<[op |-> "delete", sync |-> TRUE, id |-> [id EXCEPT !.ws = 0],
                    plans |-> <<>>, ok |-> TRUE]>>,
                 success.ok, [t |-> -1, r |-> 0, ws |-> 0], <<>>, FALSE)

\* deletePlanSync: id.trim() throws on a value that is no string, and the
\* catch returns false.
deletePlanSync(st, log, id) ==
    IF ~IsString(id) THEN Failed(st, log)
    ELSE LET cleanId == Trim(id)
             success == deleteFromLocalStorage(st, cleanId)
         IN  Res(success.st, log,
                 IF success.ok THEN Req("delete", TRUE, cleanId, <<>>) ELSE NoReq,
                 success.ok, NullId, <<>>, FALSE)

\* What a caller may pass as completedTasks: an array (val), or a value that
\* is no array: null or undefined (nullish), or one that has properties, a
\* string say.
Arr(s) == [array |-> TRUE, nullish |-> FALSE, val |-> s]
NullTasks == [array |-> FALSE, nullish |-> TRUE, val |-> <<>>]
StringTasks == [array |-> FALSE, nullish |-> FALSE, val |-> <<>>]
TaskArgs == {Arr(s) : s \in TaskSeqs} \cup {NullTasks, StringTasks}

\* updateCompletedTasks: the console.log that reads completedTasks.length (a
\* TypeError on null and undefined), the validation,
\* updatePlanSync(planId, {completedTasks}), then the additional write of
\* getAllPlans() when that succeeded.
updateCompletedTasks(st, log, planId, completedTasks, t) ==
    IF completedTasks.nullish
    THEN Res(st, log, NoReq, FALSE, NullId, <<>>, TRUE)
    ELSE IF Falsy(planId) \/ ~completedTasks.array THEN Failed(st, log)
    ELSE LET res == updatePlanSync(st, log, planId,
                                   TasksUpdate(completedTasks.val), t)
         IN  IF res.ok
             THEN [res EXCEPT !.stored = Array(getAllPlans(res.stored))]
             ELSE res

\* loadFromSupabase appending the fetched plans to the stored ones.
loadFromSupabaseMerging(st, log, fetched, supabasePlans) ==
    IF fetched
    THEN Res(IF Len(supabasePlans) > 0
             THEN Array((IF st.tag = "array" THEN st.val ELSE <<>>) \o supabasePlans)
             ELSE st,
             log, NoReq, TRUE, NullId, supabasePlans, FALSE)
    ELSE Res(st, log, NoReq, TRUE, NullId,
             IF st.tag = "array" THEN st.val ELSE <<>>, FALSE)

\* loadFromSupabase whose catch returns [] instead of getAllPlans().
loadFromSupabaseEmptyOnFailure(st, log, fetched, supabasePlans) ==
    IF fetched
    THEN Res(IF Len(supabasePlans) > 0 THEN Array(supabasePlans) ELSE st,
             log, NoReq, TRUE, NullId, supabasePlans, FALSE)
    ELSE Res(st, log, NoReq, TRUE, NullId, <<>>, FALSE)

\* loadFromSupabase from its await on: fetched tells whether loadPlans()
\* resolved (with supabasePlans) or was rejected.
loadFromSupabase(st, log, fetched, supabasePlans) ==
    IF fetched
    THEN Res(IF Len(supabasePlans) > 0 THEN Array(supabasePlans) ELSE st,
             log, NoReq, TRUE, NullId, supabasePlans, FALSE)
    ELSE Res(st, log, NoReq, TRUE, NullId, getAllPlans(st), FALSE)

\* The await of savePlan, updatePlan and deletePlan without its try/catch:
\* a rejected remote promise rejects the call.
awaitRemoteUncaught(st, log, c, outcome) ==
    Res(st, log, NoReq, outcome = "ok",
        IF c.op = "save" /\ outcome = "ok" THEN c.id ELSE NullId, <<>>,
        outcome # "ok")

\* The await of an asynchronous call followed by a second write of what the
\* call wrote before it: updatePlan puts the plan it sent back in its place.
awaitRemoteRewriting(st, log, c, outcome) ==
    Res(IF c.op = "update" /\ st.tag = "array"
        THEN Array([i \in 1..Len(st.val) |->
                       IF st.val[i].id = c.id THEN c.plans[1] ELSE st.val[i]])
        ELSE st,
        log, <<>>, TRUE,
        IF c.op = "save" THEN c.id ELSE [t |-> -1, r |-> 0, ws |-> 0], <<>>, FALSE)

\* savePlan, updatePlan and deletePlan from their await on.  The await sits
\* in a try/catch that only logs; then `return id` / `return true`.
awaitRemote(st, log, c, outcome) ==
    Res(st, log, NoReq, TRUE, IF c.op = "save" THEN c.id ELSE NullId, <<>>, FALSE)

\* ----------------------------------------------------------- Remote Store
\* SupabaseStorage (src/lib/supabase-storage.ts is not in the snapshot):
\* save(plan), update(id, plan), delete(id), loadAll() on a table keyed by id.
RemoteSave(rem, plan) ==
    IF \E i \in 1..Len(rem) : rem[i].id = plan.id
    THEN [i \in 1..Len(rem) |-> IF rem[i].id = plan.id THEN plan ELSE rem[i]]
    ELSE Append(rem, plan)

RemoteUpdate(rem, id, plan) ==
    [i \in 1..Len(rem) |-> IF rem[i].id = id THEN plan ELSE rem[i]]

RemoteDelete(rem, id) == SelectSeq(rem, LAMBDA p : p.id # id)

RemoteApply(rem, c) ==
    CASE c.op = "save" -> RemoteSave(rem, c.plans[1])
      [] c.op = "update" -> RemoteUpdate(rem, c.id, c.plans[1])
      [] c.op = "delete" -> RemoteDelete(rem, c.id)
      [] OTHER -> rem

Outcomes == {"ok", "fail"}

\* ------------------------------------------------------------ supabase.ts
\* process.env.NEXT_PUBLIC_SUPABASE_URL || '' and ..._ANON_KEY || '': a
\* string each, empty when the variable is unset.
Urls == {"", "https://project.supabase.co"}
AnonKeys == {"", "anon-key"}

\* !!(supabaseUrl && supabaseAnonKey && supabaseUrl !== '' && supabaseAnonKey !== '')
isSupabaseConfigured(e) ==
    /\ e.url # "" /\ e.key # ""
    /\ e.url # "" /\ e.key # ""

\* A message is the sequence of its words; String.prototype.includes on it.
Includes(message, phrase) ==
    \E i \in 0..(Len(message) - Len(phrase)) :
        SubSeq(message, i + 1, i + Len(phrase)) = phrase

\* What an operation throws: message (<<>> when the thrown value has none,
\* or is null) and code ("none" when it has none).
Thrown(message, code) == [message |-> message, code |-> code]
OperationErrors ==
    {Thrown(m, c) :
        m \in {<<"TypeError:", "Failed", "to", "fetch">>,
               <<"Network", "Error">>,
               <<"fetch", "is", "not", "defined">>,
               <<"Invalid", "login", "credentials">>,
               <<>>},
        c \in {"NETWORK_ERROR", "PGRST301", "none"}}
FallbackError == Thrown(<<"Erro", "de", "conectividade.">>, "none")

\* The values of T the callers use (a session, true) and null.
Null == "null"
Values == {"session", "true", Null}

\* operation: () => Promise<T>, by what its promise does; fallback?: () => T,
\* by what it does when called, "none" when the argument is left out.
Operations ==
    {[kind |-> "resolve", value |-> v, error |-> Thrown(<<>>, "none")] : v \in Values}
    \cup {[kind |-> "reject", value |-> Null, error |-> e] : e \in OperationErrors}
Fallbacks ==
    {[kind |-> "none", value |-> Null],
     [kind |-> "throw", value |-> Null]}
    \cup {[kind |-> "return", value |-> v] : v \in Values}

\* How the promise executeSupabaseOperation returns settles, and whether
\* operation was called on the way.
Resolved(invoked, value) ==
    [invoked |-> invoked, kind |-> "resolved", value |-> value,
     error |-> Thrown(<<>>, "none")]
Rejected(invoked, error) ==
    [invoked |-> invoked, kind |-> "rejected", value |-> Null, error |-> error]

\* return fallback ? fallback() : null
fallbackOrNull(invoked, fallback) ==
    CASE fallback.kind = "none" -> Resolved(invoked, Null)
      [] fallback.kind = "return" -> Resolved(invoked, fallback.value)
      [] fallback.kind = "throw" -> Rejected(invoked, FallbackError)

\* executeSupabaseOperation with a catch that rethrows what is no network
\* error.
executeSupabaseOperationRethrowing(e, operation, fallback) ==
    IF e.url = "" \/ e.key = ""
    THEN fallbackOrNull(FALSE, fallback)
    ELSE IF operation.kind = "resolve"
    THEN Resolved(TRUE, operation.value)
    ELSE IF \/ Includes(operation.error.message, <<"Failed", "to", "fetch">>)
            \/ Includes(operation.error.message, <<"Network", "Error">>)
            \/ Includes(operation.error.message, <<"fetch", "is", "not", "defined">>)
            \/ operation.error.code = "NETWORK_ERROR"
    THEN fallbackOrNull(TRUE, fallback)
    ELSE Rejected(TRUE, operation.error)

executeSupabaseOperation(e, operation, fallback) ==
    IF ~isSupabaseConfigured(e)
    THEN fallbackOrNull(FALSE, fallback)
    ELSE IF operation.kind = "resolve"
    THEN Resolved(TRUE, operation.value)
    ELSE LET error == operation.error
         IN  IF \/ Includes(error.message, <<"Failed", "to", "fetch">>)
                \/ Includes(error.message, <<"Network", "Error">>)
                \/ Includes(error.message, <<"fetch", "is", "not", "defined">>)
                \/ error.code = "NETWORK_ERROR"
             THEN fallbackOrNull(TRUE, fallback)
             ELSE fallbackOrNull(TRUE, fallback)

\* No executeSupabaseOperation call in hand.
NoExec ==
    [operation |-> [kind |-> "resolve", value |-> Null,
                    error |-> Thrown(<<>>, "none")],
     fallback |-> [kind |-> "none", value |-> Null],
     done |-> FALSE, result |-> Resolved(FALSE, Null)]

\* ------------------------------------------------------- auth-context.tsx
MaxAuthEvents == 2  \* auth state changes the listener is told of in a run

NoUser == "none"
AuthEvents == {"INITIAL_SESSION", "SIGNED_IN", "SIGNED_OUT", "TOKEN_REFRESHED"}
Sessions == {"session", Null}

\* session?.user ?? null
userOf(session) == IF session = Null THEN NoUser ELSE "user"

\* AuthProvider before its effect has run: useState(null), useState(true).
\* check is where checkSession() stands ("none": not called; "pending":
\* waiting for getSession; "settled": getSession's promise has settled and
\* the rest of checkSession is queued; "done"), listener whether
\* onAuthStateChange subscribed, route the last router.push, events the auth
\* state changes delivered so far.
Unmounted ==
    [mounted |-> FALSE, loading |-> TRUE, user |-> NoUser, check |-> "none",
     listener |-> "none", route |-> "start", events |-> 0]

\* What checkSession passes to executeSupabaseOperation: getSession, wrapped
\* to throw the error it returns, and the fallback () => null.
SessionOperations ==
    {o \in Operations : o.kind = "resolve" => o.value \in Sessions}
SessionFallback == [kind |-> "return", value |-> Null]

\* The effect: offline mode when Supabase is not configured; otherwise
\* checkSession() up to its await, then setupAuthListener(), whose catch
\* sets loading false when onAuthStateChange throws (subscribed = FALSE).
mountEffect(a, e, subscribed) ==
    IF ~isSupabaseConfigured(e)
    THEN [a EXCEPT !.mounted = TRUE, !.loading = FALSE]
    ELSE [a EXCEPT !.mounted = TRUE,
                   !.check = "pending",
                   !.listener = IF subscribed THEN "subscribed" ELSE "failed",
                   !.loading = IF subscribed THEN a.loading ELSE FALSE]

\* checkSession that leaves loading alone when it got no session.
checkSessionKeepingLoading(a, session) ==
    [a EXCEPT !.user = IF session = Null THEN "none" ELSE "user",
              !.loading = IF session = Null THEN a.loading ELSE FALSE,
              !.check = "done"]

\* checkSession from its await on: setUser(session?.user ?? null),
\* setLoading(false).
checkSession(a, session) ==
    [a EXCEPT !.user = userOf(session), !.loading = FALSE, !.check = "done"]

\* The onAuthStateChange callback.
onAuthStateChange(a, event, session) ==
    [a EXCEPT !.user = userOf(session),
              !.loading = FALSE,
              !.route = IF event = "SIGNED_IN" /\ userOf(session) # NoUser
                        THEN "/dashboard"
                        ELSE IF event = "SIGNED_OUT" THEN "/"
                        ELSE a.route,
              !.events = a.events + 1]

NoProvider ==
    /\ env = [url |-> "", key |-> ""]
    /\ exec = NoExec
    /\ auth = Unmounted

\* ---------------------------------------------------------------- actions
\* ev: the call the last step belongs to (op), where that call stands (ph:
\* "local" = local phase done, awaiting the remote promise; "return" = the
\* call returned; "invalid" = the call returned false from its input
\* validation; "settle" = a fire-and-forget promise settled), its boolean
\* result (ok), whether it ended in an exception (threw), and how the remote
\* promise it waited for settled (outcome).
Ev(op, ph, ok, threw, outcome) ==
    [op |-> op, ph |-> ph, ok |-> ok, threw |-> threw, outcome |-> outcome]

\* A plan an earlier session saved (at time 0).
OldPlan == [id |-> OldId, title |-> "A", createdAt |-> 0, updatedAt |-> 0,
            completedTasks |-> <<>>]

\* A session starts on what earlier sessions left: nothing (no plan list in
\* the browser, an empty mirror), or the old plan in both, or a plan value
\* that something else overwrote with text that does not parse.  The activity
\* log is taken empty.
Init ==
    /\ \/ \E old \in {<<>>, <<OldPlan>>} :
             /\ stored = IF old = <<>> THEN Absent ELSE Array(old)
             /\ remote = old
       \/ stored = Corrupt /\ remote = <<>>
    /\ activity = <<>>
    /\ calls = {}
    /\ ev = Ev("init", "return", TRUE, FALSE, "none")
    /\ now = 1
    /\ nOps = 0
    /\ issued = {}
    /\ removed = {}
    /\ NoProvider

CanCall == nOps < MaxOps

\* Only public calls read the clock: each finds it where the last call left
\* it (the same tick) or later.
Times == {t \in Clock : now <= t /\ t <= now + 1}

\* A request in flight; n tells it from the equal requests in flight.
InFlight(n, r) ==
    [n |-> n, op |-> r.op, sync |-> r.sync, id |-> r.id, plans |-> r.plans,
     ok |-> r.ok]
FreeSlot(r) ==
    CHOOSE n \in 1..(Cardinality(calls) + 1) :
        /\ InFlight(n, r) \notin calls
        /\ \A m \in 1..(n - 1) : InFlight(m, r) \in calls
Started(req) == {InFlight(FreeSlot(req[i]), req[i]) : i \in 1..Len(req)}

\* A public call runs to its return, or to its first await.  It reads the
\* clock (at t) only on the path on which it writes.
Run(name, res, t, invalid) ==
    /\ CanCall
    /\ nOps' = nOps + 1
    /\ stored' = res.stored
    /\ activity' = res.activity
    /\ calls' = calls \cup Started(res.req)
    /\ ev' = Ev(name,
                IF invalid THEN "invalid"
                ELSE IF res.req # NoReq /\ ~res.req[1].sync THEN "local"
                ELSE "return",
                res.ok, res.threw, "none")
    /\ now' = IF res.ok THEN t ELSE now
    /\ UNCHANGED <<remote, env, exec, auth>>

SavePlan(planData, t, r) ==
    /\ Run("savePlan", savePlan(stored, activity, planData, t, r), t, FALSE)
    /\ issued' = issued \cup {NewId(t, r)}
    /\ UNCHANGED removed

SavePlanSync(planData, t, r) ==
    /\ Run("savePlanSync", savePlanSync(stored, activity, planData, t, r), t, FALSE)
    /\ issued' = issued \cup {NewId(t, r)}
    /\ UNCHANGED removed

UpdatePlan(id, updates, t) ==
    /\ Run("updatePlan", updatePlan(stored, activity, id, updates, t), t, FALSE)
    /\ UNCHANGED <<issued, removed>>

UpdatePlanSync(id, updates, t) ==
    /\ Run("updatePlanSync", updatePlanSync(stored, activity, id, updates, t), t, FALSE)
    /\ UNCHANGED <<issued, removed>>

DeletePlan(id) ==
    /\ Run("deletePlan", deletePlan(stored, activity, id), now, InvalidId(id))
    /\ UNCHANGED <<issued, removed>>

DeletePlanSync(id) ==
    /\ Run("deletePlanSync", deletePlanSync(stored, activity, id), now, FALSE)
    /\ removed' = IF deletePlanSync(stored, activity, id).ok
                  THEN removed \cup {Trim(id)} ELSE removed
    /\ UNCHANGED issued

UpdateCompletedTasks(planId, completedTasks, t) ==
    /\ Run("updateCompletedTasks",
           updateCompletedTasks(stored, activity, planId, completedTasks, t), t,
           ~completedTasks.nullish /\ (Falsy(planId) \/ ~completedTasks.array))
    /\ UNCHANGED <<issued, removed>>

\* loadFromSupabase up to its await: SupabaseStorage.loadPlans() reads the
\* remote table, or fails.
LoadFromSupabase(outcome) ==
    /\ CanCall
    /\ nOps' = nOps + 1
    /\ calls' = calls \cup Started(<<[op |-> "load", sync |-> FALSE, id |-> NullId,
                                      plans |-> IF outcome = "ok" THEN remote
                                                ELSE <<>>,
                                      ok |-> outcome = "ok"]>>)
    /\ ev' = Ev("loadFromSupabase", "local", TRUE, FALSE, "none")
    /\ UNCHANGED <<stored, activity, remote, now, issued, removed, env, exec, auth>>

LoadReturn(c) ==
    /\ c \in calls /\ c.op = "load"
    /\ LET res == loadFromSupabase(stored, activity, c.ok, c.plans)
       IN  /\ stored' = res.stored
           /\ activity' = res.activity
           /\ ev' = Ev("loadFromSupabase", "return", res.ok, res.threw,
                       IF c.ok THEN "ok" ELSE "fail")
    /\ calls' = calls \ {c}
    /\ UNCHANGED <<remote, now, nOps, issued, removed, env, exec, auth>>

AsyncName(op) ==
    CASE op = "save" -> "savePlan"
      [] op = "update" -> "updatePlan"
      [] op = "delete" -> "deletePlan"

\* The remote write an asynchronous call awaits takes effect or is rejected,
\* and the call returns.
AsyncReturn(c, outcome) ==
    /\ c \in calls /\ c.op # "load" /\ ~c.sync
    /\ remote' = IF outcome = "ok" THEN RemoteApply(remote, c) ELSE remote
    /\ LET res == awaitRemote(stored, activity, c, outcome)
       IN  /\ stored' = res.stored
           /\ activity' = res.activity
           /\ ev' = Ev(AsyncName(c.op), "return", res.ok, res.threw, outcome)
    /\ calls' = calls \ {c}
    /\ removed' = IF c.op = "delete" THEN removed \cup {c.id} ELSE removed
    /\ UNCHANGED <<now, nOps, issued, env, exec, auth>>

\* The promise a Sync variant left behind settles; its .catch only logs.
BackgroundSettle(c, outcome) ==
    /\ c \in calls /\ c.op # "load" /\ c.sync
    /\ remote' = IF outcome = "ok" THEN RemoteApply(remote, c) ELSE remote
    /\ calls' = calls \ {c}
    /\ ev' = Ev("background", "settle", TRUE, FALSE, outcome)
    /\ UNCHANGED <<stored, activity, now, nOps, issued, removed, env, exec, auth>>

\* Math.random() suffixes are interchangeable: a save in tick t draws a
\* suffix drawn in that tick before, or the least one not drawn in it yet.
Drawable(t) ==
    {r \in Suffixes : \A q \in Suffixes : q < r => NewId(t, q) \in issued}

\* The ids callers pass: every id a plan has or had, with and without
\* surrounding whitespace, and the strings and non-strings that name no plan.
KnownIds == issued \cup Ids(getAllPlans(stored)) \cup Ids(remote)
UpdateIds == KnownIds \cup {GhostId, EmptyId}
DeleteIds == KnownIds \cup {Pad(id) : id \in KnownIds}
             \cup {GhostId, EmptyId, BlankId, NullId}

Next ==
    \/ \E planData \in PlanData, t \in Times :
          \E r \in Drawable(t) : SavePlan(planData, t, r)
    \/ \E planData \in PlanData, t \in Times :
          \E r \in Drawable(t) : SavePlanSync(planData, t, r)
    \/ \E id \in UpdateIds, u \in UpdatesFor(getAllPlans(stored)), t \in Times :
          UpdatePlan(id, u, t)
    \/ \E id \in UpdateIds, u \in UpdatesFor(getAllPlans(stored)), t \in Times :
          UpdatePlanSync(id, u, t)
    \/ \E id \in DeleteIds : DeletePlan(id)
    \/ \E id \in DeleteIds : DeletePlanSync(id)
    \/ \E id \in UpdateIds \cup {NullId}, tasks \in TaskArgs, t \in Times :
          UpdateCompletedTasks(id, tasks, t)
    \/ \E outcome \in Outcomes : LoadFromSupabase(outcome)
    \/ \E c \in calls : LoadReturn(c)
    \/ \E c \in calls, outcome \in Outcomes : AsyncReturn(c, outcome)
    \/ \E c \in calls, outcome \in Outcomes : BackgroundSettle(c, outcome)

Spec == Init /\ [][Next]_vars

\* ------------------------------------------------- the activity log alone
\* logActivity called directly, more often than the log holds entries.  The
\* first LogVaried calls take any type, title and clock value; the later ones
\* repeat one entry, which keeps the logs that differ few.
LogActivity(type, planTitle, t) ==
    /\ nOps < MaxLogged
    /\ nOps >= LogVaried => (type = "updated" /\ planTitle = "A" /\ t = now)
    /\ nOps' = nOps + 1
    /\ activity' = logActivity(activity, type, planTitle, Desc(type, planTitle), t)
    /\ ev' = Ev("logActivity", "return", TRUE, FALSE, "none")
    /\ now' = t
    /\ UNCHANGED <<stored, remote, calls, issued, removed, env, exec, auth>>

InitLog ==
    /\ stored = Absent
    /\ activity = <<>>
    /\ remote = <<>>
    /\ calls = {}
    /\ ev = Ev("init", "return", TRUE, FALSE, "none")
    /\ now = 1
    /\ nOps = 0
    /\ issued = {}
    /\ removed = {}
    /\ NoProvider

NextLog == \E type \in ActivityTypes, planTitle \in Titles, t \in Times :
              LogActivity(type, planTitle, t)

SpecLog == InitLog /\ [][NextLog]_vars

\* ------------------------------------------------ the Sync variants alone
\* Only savePlanSync, updatePlanSync and deletePlanSync are called, and every
\* remote operation they leave behind completes successfully, at any time
\* after its call and in any order.
NextSync ==
    \/ \E planData \in PlanData, t \in Times :
          \E r \in Drawable(t) : SavePlanSync(planData, t, r)
    \/ \E id \in UpdateIds, u \in UpdatesFor(getAllPlans(stored)), t \in Times :
          UpdatePlanSync(id, u, t)
    \/ \E id \in DeleteIds : DeletePlanSync(id)
    \/ \E c \in calls : BackgroundSettle(c, "ok")

SpecSync == Init /\ [][NextSync]_vars

\* ------------------------------------------ the asynchronous calls alone
\* Only savePlan, updatePlan and deletePlan are called; each may be called
\* while others wait for their remote promise, and the promises settle in any
\* order, resolved or rejected.
NextAsync ==
    \/ \E planData \in PlanData, t \in Times :
          \E r \in Drawable(t) : SavePlan(planData, t, r)
    \/ \E id \in UpdateIds, u \in UpdatesFor(getAllPlans(stored)), t \in Times :
          UpdatePlan(id, u, t)
    \/ \E id \in DeleteIds : DeletePlan(id)
    \/ \E c \in calls, outcome \in Outcomes : AsyncReturn(c, outcome)

SpecAsync == Init /\ [][NextAsync]_vars

\* ------------------------------------------------------------- statistics
\* What getStats reads of a plan: plans (its DayPlans, of which it reads the
\* flags isRestDay and isSpecialDay), completedTasks, and of formData the
\* hours parseInt finds in horasLiquidas and the disciplinasDificuldade.
MaxStatPlans == 2

Day(rest, special) == [isRestDay |-> rest, isSpecialDay |-> special]
DaySeqs ==
    {<<>>, <<Day(TRUE, FALSE)>>, <<Day(TRUE, TRUE)>>, <<Day(FALSE, TRUE)>>,
     <<Day(FALSE, FALSE), Day(TRUE, TRUE)>>,
     <<Day(FALSE, FALSE), Day(FALSE, TRUE), Day(TRUE, FALSE)>>}
DoneCounts == {0, 1, 3, 8}
Done(n) == [i \in 1..n |-> "t"]
FormDatas ==
    {[horasLiquidas |-> 0, disciplinasDificuldade |-> {}],
     [horasLiquidas |-> 4, disciplinasDificuldade |-> {"s1"}]}
StatPlans ==
    {[plans |-> d, completedTasks |-> Done(n), formData |-> f] :
        d \in DaySeqs, n \in DoneCounts, f \in FormDatas}

\* The reduce testing isSpecialDay before isRestDay.
RECURSIVE totalTasksSpecialFirst(_)
totalTasksSpecialFirst(days) ==
    IF days = <<>> THEN 0
    ELSE totalTasksSpecialFirst(Tail(days))
         + (IF Head(days).isSpecialDay THEN 3
            ELSE IF Head(days).isRestDay THEN 0 ELSE 5)

\* plan.plans.reduce(...): nothing for a rest day, 3 for a special day, 5
\* for any other.
RECURSIVE totalTasks(_)
totalTasks(days) ==
    IF days = <<>> THEN 0
    ELSE totalTasks(SubSeq(days, 1, Len(days) - 1))
         + (IF days[Len(days)].isRestDay THEN 0
            ELSE IF days[Len(days)].isSpecialDay THEN 3 ELSE 5)

\* Math.round of the fraction num / den, den > 0: halves go up.
Round(num, den) == (2 * num + den) \div (2 * den)

\* completedTasks / Math.max(totalTasks, 1) * 100 in place of the guard.
planProgressClamped(plan) ==
    [num |-> Len(plan.completedTasks) * 100,
     den |-> IF totalTasks(plan.plans) > 0 THEN totalTasks(plan.plans) ELSE 1]

\* totalTasks > 0 ? (completedTasks / totalTasks) * 100 : 0, as the exact
\* fraction num / den.
planProgress(plan) ==
    LET total == totalTasks(plan.plans)
        completedTasks == Len(plan.completedTasks)
    IN  IF total > 0 THEN [num |-> completedTasks * 100, den |-> total]
        ELSE [num |-> 0, den |-> 1]

\* The sums of the forEach over plans[1..k].  totalProgress is kept as the
\* exact fraction num / den; totalHours is kept in tenths of an hour:
\* completedTasks * (hoursPerDay / 5) is completedTasks * hoursPerDay * 2 tenths.
RECURSIVE statSums(_, _)
statSums(plans, k) ==
    IF k = 0 THEN [num |-> 0, den |-> 1, tenths |-> 0, subjects |-> {}]
    ELSE LET acc == statSums(plans, k - 1)
             plan == plans[k]
             progress == planProgress(plan)
             completedTasks == Len(plan.completedTasks)
         IN  [num |-> acc.num * progress.den + progress.num * acc.den,
              den |-> acc.den * progress.den,
              tenths |-> acc.tenths
                         + completedTasks * plan.formData.horasLiquidas * 2,
              subjects |-> acc.subjects
                           \cup plan.formData.disciplinasDificuldade]

\* getStats; totalHoursStudied is given in tenths of an hour.
getStats(st) ==
    LET plans == getAllPlans(st)
    IN  IF Len(plans) = 0
        THEN [totalPlans |-> 0, activePlans |-> 0, totalHoursStudied |-> 0,
              totalSubjects |-> 0, averageProgress |-> 0]
        ELSE LET sums == statSums(plans, Len(plans))
             IN  [totalPlans |-> Len(plans),
                  activePlans |-> Len(plans),
                  totalHoursStudied |-> sums.tenths,
                  totalSubjects |-> Cardinality(sums.subjects),
                  averageProgress |-> Round(sums.num, sums.den * Len(plans))]

\* Any list of up to MaxStatPlans plans may be stored when getStats is called.
StatLists == UNION {[1..n -> StatPlans] : n \in 0..MaxStatPlans}

InitStats ==
    /\ stored \in {Absent} \cup {Array(s) : s \in StatLists}
    /\ activity = <<>>
    /\ remote = <<>>
    /\ calls = {}
    /\ ev = Ev("init", "return", TRUE, FALSE, "none")
    /\ now = 1
    /\ nOps = 0
    /\ issued = {}
    /\ removed = {}
    /\ NoProvider

\* getStats reads and returns; it writes nothing.
GetStats ==
    /\ CanCall
    /\ nOps' = nOps + 1
    /\ ev' = Ev("getStats", "return", TRUE, FALSE, "none")
    /\ UNCHANGED <<stored, activity, remote, calls, now, issued, removed, env, exec, auth>>

NextStats == GetStats

SpecStats == InitStats /\ [][NextStats]_vars

\* -------------------------------------------------------- recent activity
HOUR == 3600000
MaxRecentPlans == 3

\* The fallback pushing an updated entry for every plan.
RECURSIVE synthesizedAlwaysUpdated(_, _, _)
synthesizedAlwaysUpdated(plans, k, t) ==
    IF k = 0 THEN <<>>
    ELSE synthesizedAlwaysUpdated(plans, k - 1, t)
         \o <<[type |-> "created", planTitle |-> plans[k].title,
               timestamp |-> plans[k].createdAt,
               description |-> <<"created", plans[k].title>>],
              [type |-> "updated", planTitle |-> plans[k].title,
               timestamp |-> plans[k].updatedAt,
               description |-> <<"updated", plans[k].title>>]>>
         \o [j \in 1..(IF Len(plans[k].completedTasks) < 3
                       THEN Len(plans[k].completedTasks) ELSE 3) |->
                [type |-> "completed_task", planTitle |-> plans[k].title,
                 timestamp |-> t - (j - 1) * 3600000,
                 description |-> <<"completed_task", plans[k].title>>]]

\* The entries the fallback of getRecentActivity builds for plans[1..k], in
\* the order of the pushes; t is Date.now().  As in the log, the id of an
\* entry is left out.
RECURSIVE synthesized(_, _, _)
synthesized(plans, k, t) ==
    IF k = 0 THEN <<>>
    ELSE LET plan == plans[k]
             completedCount == Len(plan.completedTasks)
         IN  synthesized(plans, k - 1, t)
             \o <<[type |-> "created", planTitle |-> plan.title,
                   timestamp |-> plan.createdAt,
                   description |-> Desc("created", plan.title)]>>
             \o (IF plan.updatedAt # plan.createdAt
                 THEN <<[type |-> "updated", planTitle |-> plan.title,
                         timestamp |-> plan.updatedAt,
                         description |-> Desc("updated", plan.title)]>>
                 ELSE <<>>)
             \o [j \in 1..Min(3, completedCount) |->
                    [type |-> "completed_task", planTitle |-> plan.title,
                     timestamp |-> t - (j - 1) * HOUR,
                     description |-> Desc("completed_task", plan.title)]]

\* activities.sort((a, b) => time(b) - time(a)): descending, and stable.
RECURSIVE sortByTimestampDesc(_)
sortByTimestampDesc(activities) ==
    IF Len(activities) <= 1 THEN activities
    ELSE LET sorted == sortByTimestampDesc(SubSeq(activities, 1, Len(activities) - 1))
             x == activities[Len(activities)]
             k == Cardinality({i \in 1..Len(sorted) :
                                  sorted[i].timestamp >= x.timestamp})
         IN  SubSeq(sorted, 1, k) \o <<x>> \o SubSeq(sorted, k + 1, Len(sorted))

\* getRecentActivity at time t.
getRecentActivity(st, log, t) ==
    LET loggedActivities == getActivityLog(log)
        plans == getAllPlans(st)
        activities == sortByTimestampDesc(synthesized(plans, Len(plans), t))
    IN  IF Len(loggedActivities) > 0
        THEN Res(st, log, NoReq, TRUE, NullId,
                 SubSeq(loggedActivities, 1, Min(10, Len(loggedActivities))),
                 FALSE)
        ELSE Res(st, log, NoReq, TRUE, NullId,
                 SubSeq(activities, 1, Min(10, Len(activities))), FALSE)

\* The plans getRecentActivity may find: created and last updated within the
\* three hours before now, or never updated, with 0, 1 or 4 completed tasks.
RecentStamps ==
    {<<HOUR \div 2, HOUR \div 2>>, <<HOUR \div 2, 5 * (HOUR \div 2)>>,
     <<3 * (HOUR \div 2), 3 * HOUR>>}
RecentPlans ==
    {[id |-> OldId, title |-> "A", createdAt |-> c[1], updatedAt |-> c[2],
      completedTasks |-> Done(n)] : c \in RecentStamps, n \in {1, 4}}
    \cup {[id |-> GhostId, title |-> "B", createdAt |-> 2 * HOUR,
           updatedAt |-> 2 * HOUR, completedTasks |-> Done(0)]}
RecentLists == UNION {[1..n -> RecentPlans] : n \in 0..MaxRecentPlans}

\* A persisted log of n entries, the newest first.
LoggedEntries(n) ==
    [i \in 1..n |-> [type |-> "updated", planTitle |-> "A",
                     timestamp |-> n - i,
                     description |-> Desc("updated", "A")]]

\* The log is empty and any list of plans is stored, or the log holds 1, 10,
\* 11 or 50 entries.
InitRecent ==
    /\ \/ activity = <<>> /\ stored \in {Array(s) : s \in RecentLists}
       \/ /\ activity \in {LoggedEntries(n) : n \in {1, 10, 11, LOG_CAP}}
          /\ stored \in {Absent} \cup {Array(<<p>>) : p \in RecentPlans}
    /\ remote = <<>>
    /\ calls = {}
    /\ ev = Ev("init", "return", TRUE, FALSE, "none")
    /\ now = 3 * HOUR
    /\ nOps = 0
    /\ issued = {}
    /\ removed = {}
    /\ NoProvider

GetRecentActivity ==
    /\ CanCall
    /\ nOps' = nOps + 1
    /\ LET res == getRecentActivity(stored, activity, now)
       IN  /\ stored' = res.stored
           /\ activity' = res.activity
           /\ ev' = Ev("getRecentActivity", "return", res.ok, res.threw, "none")
    /\ UNCHANGED <<remote, calls, now, issued, removed, env, exec, auth>>

NextRecent == GetRecentActivity

SpecRecent == InitRecent /\ [][NextRecent]_vars

\* ---------------------------------------------------------- the audit
MaxAuditPlans == 2

\* A createdAt that is the empty string.
NoStamp == -1

\* verifyDataIntegrity testing only id and title of each plan.
verifyDataIntegrityIdAndTitle(st, log) ==
    LET plans == IF st.tag = "array" THEN st.val ELSE <<>>
    IN  Res(st, log, <<>>,
            /\ \A i, j \in 1..Len(plans) : i # j => plans[i].id # plans[j].id
            /\ \A i \in 1..Len(plans) :
                  plans[i].id.r # 0 /\ plans[i].title # "",
            [t |-> -1, r |-> 0, ws |-> 0], <<>>, FALSE)

\* verifyDataIntegrity: false when planIds is longer than the Set of its
\* members, false when a plan has a falsy id, title or createdAt, else true.
verifyDataIntegrity(st, log) ==
    LET plans == getAllPlans(st)
        activities == getActivityLog(log)
        planIds == [i \in 1..Len(plans) |-> plans[i].id]
        uniqueIds == {planIds[i] : i \in 1..Len(planIds)}
    IN  IF Len(planIds) # Cardinality(uniqueIds)
        THEN Res(st, log, NoReq, FALSE, NullId, <<>>, FALSE)
        ELSE IF \E i \in 1..Len(plans) :
                   \/ Falsy(plans[i].id)
                   \/ plans[i].title = ""
                   \/ plans[i].createdAt = NoStamp
        THEN Res(st, log, NoReq, FALSE, NullId, <<>>, FALSE)
        ELSE Res(st, log, NoReq, TRUE, NullId, <<>>, FALSE)

\* The plans the audit may find: with or without an id, a title, a createdAt.
AuditPlans ==
    {[id |-> i, title |-> x, createdAt |-> c, updatedAt |-> 0,
      completedTasks |-> <<>>] :
        i \in {OldId, GhostId, EmptyId}, x \in {"", "A"}, c \in {NoStamp, 0}}
AuditLists == UNION {[1..n -> AuditPlans] : n \in 0..MaxAuditPlans}

InitAudit ==
    /\ stored \in {Absent, Corrupt} \cup {Array(s) : s \in AuditLists}
    /\ activity \in {<<>>, LoggedEntries(1)}
    /\ remote = <<>>
    /\ calls = {}
    /\ ev = Ev("init", "return", TRUE, FALSE, "none")
    /\ now = 1
    /\ nOps = 0
    /\ issued = {}
    /\ removed = {}
    /\ NoProvider

VerifyDataIntegrity ==
    /\ CanCall
    /\ nOps' = nOps + 1
    /\ LET res == verifyDataIntegrity(stored, activity)
       IN  /\ stored' = res.stored
           /\ activity' = res.activity
           /\ ev' = Ev("verifyDataIntegrity", "return", res.ok, res.threw, "none")
    /\ UNCHANGED <<remote, calls, now, issued, removed, env, exec, auth>>

NextAudit == VerifyDataIntegrity

SpecAudit == InitAudit /\ [][NextAudit]_vars

\* ------------------------------------- executeSupabaseOperation alone
\* One call of executeSupabaseOperation, with any environment, any operation
\* and any fallback.
InitExec ==
    /\ stored = Absent
    /\ activity = <<>>
    /\ remote = <<>>
    /\ calls = {}
    /\ ev = Ev("init", "return", TRUE, FALSE, "none")
    /\ now = 1
    /\ nOps = 0
    /\ issued = {}
    /\ removed = {}
    /\ env \in [url : Urls, key : AnonKeys]
    /\ exec \in {[NoExec EXCEPT !.operation = o, !.fallback = f] :
                    o \in Operations, f \in Fallbacks}
    /\ auth = Unmounted

ExecuteSupabaseOperation ==
    /\ ~exec.done
    /\ exec' = [exec EXCEPT
                   !.done = TRUE,
                   !.result = executeSupabaseOperation(env, exec.operation,
                                                       exec.fallback)]
    /\ nOps' = nOps + 1
    /\ ev' = Ev("executeSupabaseOperation", "return", TRUE,
                exec'.result.kind = "rejected", "none")
    /\ UNCHANGED <<stored, activity, remote, calls, now, issued, removed, env, auth>>

NextExec == ExecuteSupabaseOperation

SpecExec == InitExec /\ [][NextExec]_vars

\* ------------------------------------------------- the AuthProvider alone
InitAuth ==
    /\ stored = Absent
    /\ activity = <<>>
    /\ remote = <<>>
    /\ calls = {}
    /\ ev = Ev("init", "return", TRUE, FALSE, "none")
    /\ now = 1
    /\ nOps = 0
    /\ issued = {}
    /\ removed = {}
    /\ env \in [url : Urls, key : AnonKeys]
    /\ exec = NoExec
    /\ auth = Unmounted

\* React runs the effect after the first render.
Mount(subscribed) ==
    /\ ~auth.mounted
    /\ auth' = mountEffect(auth, env, subscribed)
    /\ exec' = IF isSupabaseConfigured(env)
               THEN [NoExec EXCEPT !.fallback = SessionFallback]
               ELSE exec
    /\ ev' = Ev("useEffect", "return", TRUE, FALSE, "none")
    /\ UNCHANGED <<stored, activity, remote, calls, now, nOps, issued, removed, env>>

\* getSession's promise settles, and with it executeSupabaseOperation's.
GetSessionSettles(operation) ==
    /\ auth.check = "pending"
    /\ exec' = [exec EXCEPT
                   !.operation = operation,
                   !.done = TRUE,
                   !.result = executeSupabaseOperation(env, operation,
                                                       exec.fallback)]
    /\ auth' = [auth EXCEPT !.check = "settled"]
    /\ ev' = Ev("getSession", "settle", TRUE, FALSE,
                IF operation.kind = "resolve" THEN "ok" ELSE "fail")
    /\ UNCHANGED <<stored, activity, remote, calls, now, nOps, issued, removed, env>>

\* checkSession resumes after its await.
CheckSessionResume ==
    /\ auth.check = "settled"
    /\ exec.result.kind = "resolved"
    /\ auth' = checkSession(auth, exec.result.value)
    /\ ev' = Ev("checkSession", "return", TRUE, FALSE, "none")
    /\ UNCHANGED <<stored, activity, remote, calls, now, nOps, issued, removed,
                   env, exec>>

\* Supabase tells the listener of an auth state change.
AuthStateChange(event, session) ==
    /\ auth.listener = "subscribed"
    /\ auth.events < MaxAuthEvents
    /\ auth' = onAuthStateChange(auth, event, session)
    /\ ev' = Ev("onAuthStateChange", "return", TRUE, FALSE, "none")
    /\ UNCHANGED <<stored, activity, remote, calls, now, nOps, issued, removed,
                   env, exec>>

NextAuth ==
    \/ \E subscribed \in BOOLEAN : Mount(subscribed)
    \/ \E operation \in SessionOperations : GetSessionSettles(operation)
    \/ CheckSessionResume
    \/ \E event \in AuthEvents, session \in Sessions : AuthStateChange(event, session)

SpecAuth == InitAuth /\ [][NextAuth]_vars

\* The effect runs once the provider has rendered, and the event loop runs
\* the rest of checkSession once the promise it awaits has settled.  Whether
\* getSession settles is up to the network.
SpecAuthLive ==
    /\ SpecAuth
    /\ WF_vars(\E subscribed \in BOOLEAN : Mount(subscribed))
    /\ WF_vars(CheckSessionResume)

\* ----------------------------------------------------------------- claims
Plans == getAllPlans(stored)
AsyncCalls == {c \in calls : c.op # "load" /\ ~c.sync}
LoadCalls == {c \in calls : c.op = "load"}

\* The records of a plan list that carry planData's fields under id.
Carrying(plans, planData, id) ==
    {i \in 1..Len(plans) : /\ plans[i].id = id
                           /\ plans[i].title = planData.title
                           /\ plans[i].completedTasks = planData.completedTasks}

\* C1: a step of savePlan(X) or savePlanSync(X) leaves in getAllPlans() every
\* record it held before and exactly one record carrying X's fields under the
\* returned id; the step in which a pending savePlan returns, whatever its
\* remote write did, leaves the stored list as it was.
C1_LocalDurability ==
    [][/\ \A planData \in PlanData, t \in Times, r \in Suffixes :
             (SavePlan(planData, t, r) \/ SavePlanSync(planData, t, r)) =>
                LET after == getAllPlans(stored')
                IN  /\ Len(after) = Len(Plans) + 1
                    /\ SubSeq(after, 1, Len(Plans)) = Plans
                    /\ Cardinality(Carrying(after, planData, NewId(t, r))) = 1
       /\ \A c \in AsyncCalls, outcome \in Outcomes :
             (c.op = "save" /\ AsyncReturn(c, outcome)) => stored' = stored]_vars

\* C2: every step in which the remote promise of savePlan, updatePlan,
\* deletePlan or of a Sync variant settles leaves the Local Store (plan list
\* and activity log) as it was, whatever the outcome; the awaiting call then
\* returns what its local phase decided (true, or the id generated), and no
\* exception reaches the caller.
C2_RemoteFailureNotPropagated ==
    [][\A c \in calls, outcome \in Outcomes :
          (AsyncReturn(c, outcome) \/ BackgroundSettle(c, outcome)) =>
             /\ stored' = stored
             /\ activity' = activity
             /\ ~ev'.threw
             /\ ev'.ok
             /\ ~c.sync =>
                   LET res == awaitRemote(stored, activity, c, outcome)
                   IN  /\ res.ok /\ ~res.threw
                       /\ res.id = IF c.op = "save" THEN c.id ELSE NullId]_vars

\* C2 witness: an asynchronous call returned true after its remote write failed.
C2_Witness ==
    /\ ev.op \in {"savePlan", "updatePlan", "deletePlan"}
    /\ ev.ph = "return" /\ ev.outcome = "fail" /\ ev.ok

\* C3 as stated: a step of deletePlan(id) or deletePlanSync(id) for an id
\* that is not the id of a stored plan returns false, leaves the stored list
\* unchanged and starts no remote delete.
C3_DeleteOnMissAsStated ==
    [][\A id \in DeleteIds :
          (id \notin Ids(Plans) /\ (DeletePlan(id) \/ DeletePlanSync(id))) =>
             ~ev'.ok /\ stored' = stored /\ calls' = calls /\ remote' = remote]_vars

\* C3 amended: a step of deletePlan(id) or deletePlanSync(id) for an id that
\* is not a string, or whose trimmed form is not the id of a stored plan,
\* returns false, leaves the stored list unchanged and starts no remote delete.
C3_DeleteOnMiss ==
    [][\A id \in DeleteIds :
          (/\ ~IsString(id) \/ Trim(id) \notin Ids(Plans)
           /\ DeletePlan(id) \/ DeletePlanSync(id)) =>
             ~ev'.ok /\ stored' = stored /\ calls' = calls /\ remote' = remote]_vars

\* C3 witness: a delete returned false on a store that holds a plan.
C3_Witness ==
    /\ ev.op \in {"deletePlan", "deletePlanSync"}
    /\ ev.ph = "return" /\ ~ev.ok
    /\ Len(Plans) > 0

UpdateMissed(res) ==
    ~res.ok /\ res.stored = stored /\ res.activity = activity /\ res.req = NoReq

\* C4: updatePlan, updatePlanSync and updateCompletedTasks for an id absent
\* from the Local Store return false and leave the plan list and the activity
\* log unchanged and start no remote call.
C4_UpdateOnMiss ==
    [](\A id \in UpdateIds :
          id \notin Ids(Plans) =>
              /\ \A u \in UpdatesFor(Plans), t \in Times :
                    /\ UpdateMissed(updatePlan(stored, activity, id, u, t))
                    /\ UpdateMissed(updatePlanSync(stored, activity, id, u, t))
              /\ \A tasks \in TaskSeqs, t \in Times :
                    UpdateMissed(updateCompletedTasks(stored, activity, id,
                                                      Arr(tasks), t)))

\* C4 witness: an update returned false on a store that holds a plan.
C4_Witness ==
    /\ ev.op \in {"updatePlan", "updatePlanSync", "updateCompletedTasks"}
    /\ ev.ph = "return" /\ ~ev.ok
    /\ Len(Plans) > 0

\* C5: no two records of the Local Store have the same id.
C5_UniqueIds ==
    \A i, j \in 1..Len(Plans) : i # j => Plans[i].id # Plans[j].id

\* C6: the id a savePlan / savePlanSync call returns differs from every id
\* returned before.
C6_DistinctGeneratedIds ==
    [][\A planData \in PlanData, t \in Times, r \in Suffixes :
          (SavePlan(planData, t, r) \/ SavePlanSync(planData, t, r)) =>
             savePlan(stored, activity, planData, t, r).id \notin issued]_vars

\* C7: when loadFromSupabase fetched a non-empty plan set R, the Local Store
\* afterwards holds exactly R; when it fetched an empty one, the Local Store
\* is left as it was.
C7_SyncOverwrite ==
    \A c \in LoadCalls :
        c.ok =>
            LET res == loadFromSupabase(stored, activity, TRUE, c.plans)
            IN  /\ Len(c.plans) > 0 =>
                      res.stored.tag = "array" /\ getAllPlans(res.stored) = c.plans
                /\ Len(c.plans) = 0 => res.stored = stored
                /\ res.out = c.plans

\* C7 witness: a plan saved in this session is gone after loadFromSupabase
\* (the two calls of the run) overwrote the list with the mirror's old plan.
C7_Witness ==
    /\ ev.op = "loadFromSupabase" /\ ev.ph = "return" /\ ev.outcome = "ok"
    /\ issued # {}
    /\ Plans = <<OldPlan>>

\* C8: when the fetch of loadFromSupabase fails, the call returns the current
\* Local Store contents, leaves the Local Store unchanged and throws nothing.
C8_LoadFallback ==
    \A c \in LoadCalls :
        ~c.ok =>
            LET res == loadFromSupabase(stored, activity, FALSE, c.plans)
            IN  /\ res.out = Plans
                /\ res.stored = stored
                /\ res.activity = activity
                /\ ~res.threw

\* C8 witness: loadFromSupabase returned after a failed fetch, on a store
\* that holds a plan.
C8_Witness ==
    /\ ev.op = "loadFromSupabase" /\ ev.ph = "return" /\ ev.outcome = "fail"
    /\ Len(Plans) > 0

\* C9: the activity log never holds more than 50 entries; a logActivity call
\* puts its entry at index 0 and keeps the others in their order, dropping
\* the last one when the log was full.
C9_ActivityRetention ==
    /\ Len(activity) <= 50
    /\ \A type \in ActivityTypes, planTitle \in Titles, t \in Times :
          LET after == logActivity(activity, type, planTitle,
                                   Desc(type, planTitle), t)
              kept == IF Len(activity) < 50 THEN Len(activity) ELSE 49
          IN  /\ Len(after) = kept + 1
              /\ after[1] = [type |-> type, planTitle |-> planTitle,
                             timestamp |-> t,
                             description |-> Desc(type, planTitle)]
              /\ \A i \in 1..kept : after[i + 1] = activity[i]

\* C9 witness: the log is full and more calls were made than it holds.
C9_Witness == Len(activity) = 50 /\ nOps > 50 /\ ev.op = "logActivity"

\* C10: a step of updatePlan or updatePlanSync on an existing plan, given
\* completedTasks longer than the stored list, logs completed_task and then
\* updated (log[0] is the updated entry, log[1] the completed_task entry);
\* given a list that is not longer, it logs the updated entry only.
C10_TaskCompletionLogging ==
    [][\A id \in Ids(Plans), tasks \in TaskSeqs, t \in Times :
          (UpdatePlan(id, TasksUpdate(tasks), t)
           \/ UpdatePlanSync(id, TasksUpdate(tasks), t)) =>
             IF Len(tasks) > Len(Plans[findIndex(Plans, id)].completedTasks)
             THEN /\ Len(activity') = Min(Len(activity) + 2, LOG_CAP)
                  /\ activity'[1].type = "updated"
                  /\ activity'[2].type = "completed_task"
                  /\ activity'[1].planTitle = activity'[2].planTitle
             ELSE /\ Len(activity') = Min(Len(activity) + 1, LOG_CAP)
                  /\ activity'[1].type = "updated"
                  /\ SubSeq(activity', 2, Len(activity')) = activity]_vars

\* The plan list without its k-th record.
Without(plans, k) == SubSeq(plans, 1, k - 1) \o SubSeq(plans, k + 1, Len(plans))

\* C11: deletePlan(id) for an id a stored plan has leaves the Local Store one
\* record shorter: the record gone has that id, the others are unchanged and
\* in their order, and a remote delete is started; when that remote delete
\* settles, resolved or rejected, the call returns true and the list stays.
C11_DeleteRemovesOne ==
    /\ \A id \in Ids(Plans) :
          LET res == deletePlan(stored, activity, id)
          IN  /\ res.ok /\ ~res.threw
              /\ res.stored.tag = "array"
              /\ Len(res.stored.val) = Len(Plans) - 1
              /\ \E k \in 1..Len(Plans) :
                    Plans[k].id = id /\ res.stored.val = Without(Plans, k)
              /\ res.req = Req("delete", FALSE, id, <<>>)
    /\ \A c \in AsyncCalls, outcome \in Outcomes :
          c.op = "delete" =>
             LET res == awaitRemote(stored, activity, c, outcome)
             IN  res.ok /\ ~res.threw /\ res.stored = stored

\* C11 witness: deletePlan returned true after its remote delete was
\* rejected, and the plans it left are still stored.
C11_Witness ==
    /\ ev.op = "deletePlan" /\ ev.ph = "return" /\ ev.outcome = "fail" /\ ev.ok
    /\ Len(Plans) > 0

\* C12: deletePlan with an empty string, a whitespace-only string or a value
\* that is no string returns false, leaves the Local Store as it was and
\* starts no remote delete; with any other id it does what it does with the
\* trimmed id: the lookup, the record removed and the remote delete it starts
\* are those of id.trim().
C12_DeleteValidation ==
    [](\A id \in DeleteIds :
           LET res == deletePlan(stored, activity, id)
           IN  IF ~IsString(id) \/ id = EmptyId \/ id = BlankId
               THEN /\ ~res.ok /\ ~res.threw
                    /\ res.stored = stored /\ res.activity = activity
                    /\ res.req = NoReq
               ELSE /\ res.ok = (Trim(id) \in Ids(Plans))
                    /\ res.ok =>
                          /\ \E k \in 1..Len(Plans) :
                                /\ Plans[k].id = Trim(id)
                                /\ res.stored = Array(Without(Plans, k))
                          /\ Len(res.req) = 1
                          /\ res.req[1].op = "delete" /\ res.req[1].id = Trim(id)
                    /\ ~res.ok => res.stored = stored /\ res.req = NoReq
                    /\ res = deletePlan(stored, activity, Trim(id)))

\* C12 witness: deletePlan returned false from its validation on a store
\* that holds plans, and the plans and the mirror are as they were.
C12_Witness ==
    /\ ev.op = "deletePlan" /\ ev.ph = "invalid" /\ ~ev.ok
    /\ Len(Plans) > 0 /\ calls = {}

\* C13: a plan for whose id deletePlan or deletePlanSync has returned true
\* is in the Local Store in no later state.
C13_DeletedStaysDeleted == \A id \in removed : id \notin Ids(Plans)

\* C14: every stored record has updatedAt >= createdAt; savePlan and
\* savePlanSync store the two equal; and updatePlan and updatePlanSync on a
\* stored plan, whatever partial fields they are given, store the time of the
\* call as its updatedAt.
C14_Timestamps ==
    /\ \A i \in 1..Len(Plans) : Plans[i].updatedAt >= Plans[i].createdAt
    /\ \A planData \in PlanData, t \in Times, r \in Suffixes :
          LET after == getAllPlans(savePlan(stored, activity, planData, t, r).stored)
          IN  after[Len(after)].updatedAt = after[Len(after)].createdAt
    /\ \A id \in Ids(Plans), u \in UpdatesFor(Plans), t \in Times :
          LET k == findIndex(Plans, id)
          IN  /\ getAllPlans(updatePlan(stored, activity, id, u, t).stored)[k].updatedAt = t
              /\ getAllPlans(updatePlanSync(stored, activity, id, u, t).stored)[k].updatedAt = t

\* The plans of a list, as a set.
PlanSet(plans) == {plans[i] : i \in 1..Len(plans)}

\* C15: when only the Sync variants were called and every remote operation
\* they started has completed successfully, in whatever order, and none is
\* pending, the Remote Store holds the plans the Local Store holds.
C15_MirrorConverges == calls = {} => PlanSet(remote) = PlanSet(Plans)

\* C16: while the stored plan value is absent or is text that does not
\* parse, getAllPlans() is the empty sequence, and savePlan returns the new
\* id without an exception and leaves stored the list of the one new record.
C16_CorruptStoreRecovery ==
    stored.tag \in {"absent", "corrupt"} =>
        /\ getAllPlans(stored) = <<>>
        /\ \A planData \in PlanData, t \in Times, r \in Suffixes :
              LET res == savePlan(stored, activity, planData, t, r)
              IN  /\ res.ok /\ ~res.threw /\ res.id = NewId(t, r)
                  /\ res.stored.tag = "array"
                  /\ getAllPlans(res.stored) = <<newPlan(planData, NewId(t, r), t)>>

\* C16 witness: the first call of a session was a savePlan and the store
\* holds exactly the record it created: no plan list could be read before it.
C16_Witness ==
    /\ nOps = 1 /\ ev.op = "savePlan" /\ ev.ok /\ ~ev.threw
    /\ Len(Plans) = 1 /\ Plans[1].id \in issued

\* The task denominator of a plan: 5 for each day that is neither a rest day
\* nor special, 3 for each special day that is no rest day.
Denominator(plan) ==
    5 * Cardinality({i \in 1..Len(plan.plans) :
                        ~plan.plans[i].isRestDay /\ ~plan.plans[i].isSpecialDay})
    + 3 * Cardinality({i \in 1..Len(plan.plans) :
                          ~plan.plans[i].isRestDay /\ plan.plans[i].isSpecialDay})

\* The product of the non-zero denominators of plans[1..k], and the sum of
\* the progress values of plans[1..k] in units of 1 / that product.
RECURSIVE DenProduct(_, _)
DenProduct(plans, k) ==
    IF k = 0 THEN 1
    ELSE DenProduct(plans, k - 1)
         * (IF Denominator(plans[k]) = 0 THEN 1 ELSE Denominator(plans[k]))
RECURSIVE ProgressSum(_, _, _)
ProgressSum(plans, k, unit) ==
    IF k = 0 THEN 0
    ELSE ProgressSum(plans, k - 1, unit)
         + (IF Denominator(plans[k]) = 0 THEN 0
            ELSE (Len(plans[k].completedTasks) * 100 * unit)
                     \div Denominator(plans[k]))

\* C17: with no plans every aggregate of getStats is 0; otherwise its
\* averageProgress is an integer nearest to the mean of the per-plan progress
\* values, completedTasks.length / denominator * 100, or 0 for a denominator
\* of 0.
C17_AverageProgress ==
    LET stats == getStats(stored)
        n == Len(Plans)
        unit == DenProduct(Plans, n)
        sum == ProgressSum(Plans, n, unit)
    IN  IF n = 0
        THEN stats = [totalPlans |-> 0, activePlans |-> 0,
                      totalHoursStudied |-> 0, totalSubjects |-> 0,
                      averageProgress |-> 0]
        ELSE /\ (2 * stats.averageProgress - 1) * n * unit <= 2 * sum
             /\ 2 * sum <= (2 * stats.averageProgress + 1) * n * unit

\* C17 witness: getStats returned on two plans, one with a day that is both
\* a rest day and special, whose mean progress is no integer.
C17_Witness ==
    /\ ev.op = "getStats" /\ Len(Plans) = 2
    /\ \E k \in 1..2 : \E i \in 1..Len(Plans[k].plans) :
          Plans[k].plans[i] = Day(TRUE, TRUE) /\ Denominator(Plans[k]) > 0
    /\ ProgressSum(Plans, 2, DenProduct(Plans, 2))
          # getStats(stored).averageProgress * 2 * DenProduct(Plans, 2)

\* C18: when no plan with a non-zero denominator has more completed tasks
\* than its denominator, every per-plan progress value and averageProgress
\* are between 0 and 100; and a plan whose denominator is 0 has progress 0,
\* whatever the length of its completedTasks.
C18_ProgressBounds ==
    /\ \A k \in 1..Len(Plans) :
          Denominator(Plans[k]) = 0 => planProgress(Plans[k]).num = 0
    /\ (\A k \in 1..Len(Plans) :
           Denominator(Plans[k]) > 0 =>
              Len(Plans[k].completedTasks) <= Denominator(Plans[k]))
       => /\ \A k \in 1..Len(Plans) :
                /\ planProgress(Plans[k]).den > 0
                /\ 0 <= planProgress(Plans[k]).num
                /\ planProgress(Plans[k]).num <= 100 * planProgress(Plans[k]).den
          /\ 0 <= getStats(stored).averageProgress
          /\ getStats(stored).averageProgress <= 100

\* C18 witness: getStats returned 50 on a plan with all of its tasks
\* completed and a plan with completed tasks and a denominator of 0.
C18_Witness ==
    /\ ev.op = "getStats" /\ Len(Plans) = 2
    /\ Denominator(Plans[1]) = 0 /\ Len(Plans[1].completedTasks) > 0
    /\ Denominator(Plans[2]) > 0
    /\ Len(Plans[2].completedTasks) = Denominator(Plans[2])
    /\ getStats(stored).averageProgress = 50

\* The entries the current plans stand for: per plan one created entry, an
\* updated entry when updatedAt differs from createdAt, and a completed_task
\* entry for each of the last min(3, completedTasks.length) hours.
EntryOf(type, plan, timestamp) ==
    [type |-> type, planTitle |-> plan.title, timestamp |-> timestamp,
     description |-> Desc(type, plan.title)]
ExpectedCount(e) ==
    Cardinality({k \in 1..Len(Plans) :
                    e = EntryOf("created", Plans[k], Plans[k].createdAt)})
    + Cardinality({k \in 1..Len(Plans) :
                      /\ Plans[k].updatedAt # Plans[k].createdAt
                      /\ e = EntryOf("updated", Plans[k], Plans[k].updatedAt)})
    + Cardinality({ki \in (1..Len(Plans)) \X (0..2) :
                      /\ ki[2] < Len(Plans[ki[1]].completedTasks)
                      /\ e = EntryOf("completed_task", Plans[ki[1]],
                                     now - ki[2] * HOUR)})
ExpectedTotal ==
    Len(Plans)
    + Cardinality({k \in 1..Len(Plans) : Plans[k].updatedAt # Plans[k].createdAt})
    + Cardinality({ki \in (1..Len(Plans)) \X (0..2) :
                      ki[2] < Len(Plans[ki[1]].completedTasks)})
CountIn(seq, e) == Cardinality({i \in 1..Len(seq) : seq[i] = e})

\* C19: getRecentActivity returns at most 10 entries and writes nothing.
\* With a non-empty log the result is the log's first 10 entries in their
\* order.  With an empty log it is sorted by timestamp, newest first, holds
\* min(10, number of entries the plans stand for) entries, holds none that
\* the plans do not stand for, and every entry it leaves out is no newer
\* than its last one.
C19_RecentActivity ==
    \A res \in {getRecentActivity(stored, activity, now)} :
    LET out == res.out
    IN  /\ Len(out) <= 10
        /\ res.stored = stored /\ res.activity = activity /\ res.req = NoReq
        /\ ~res.threw
        /\ activity # <<>> =>
              out = SubSeq(activity, 1, Min(10, Len(activity)))
        /\ activity = <<>> =>
              /\ Len(out) = Min(10, ExpectedTotal)
              /\ \A i, j \in 1..Len(out) :
                    i < j => out[i].timestamp >= out[j].timestamp
              /\ \A i \in 1..Len(out) : CountIn(out, out[i]) <= ExpectedCount(out[i])
              /\ ExpectedTotal > 10 =>
                    \A type \in ActivityTypes, k \in 1..Len(Plans) :
                       \A ts \in {Plans[k].createdAt, Plans[k].updatedAt,
                                  now, now - HOUR, now - 2 * HOUR} :
                          LET e == EntryOf(type, Plans[k], ts)
                          IN  CountIn(out, e) < ExpectedCount(e) =>
                                 e.timestamp <= out[Len(out)].timestamp

\* C19 witness: getRecentActivity returned on an empty log and three plans
\* that stand for more than 10 entries, one plan never updated, one updated.
C19_Witness ==
    /\ ev.op = "getRecentActivity" /\ activity = <<>>
    /\ Len(Plans) = 3 /\ ExpectedTotal > 10
    /\ \E k \in 1..3 : Plans[k].updatedAt = Plans[k].createdAt
    /\ \E k \in 1..3 : Plans[k].updatedAt # Plans[k].createdAt

\* C20: verifyDataIntegrity returns true exactly when the ids of the stored
\* plans are pairwise distinct and every plan has a non-empty id, title and
\* createdAt; it throws nothing and leaves the plan list and the activity
\* log as they were.
C20_IntegrityAudit ==
    LET res == verifyDataIntegrity(stored, activity)
    IN  /\ res.ok =
              (/\ \A i, j \in 1..Len(Plans) : i # j => Plans[i].id # Plans[j].id
               /\ \A i \in 1..Len(Plans) :
                     /\ Plans[i].id # EmptyId
                     /\ Plans[i].title # ""
                     /\ Plans[i].createdAt # NoStamp)
        /\ ~res.threw
        /\ res.stored = stored /\ res.activity = activity /\ res.req = NoReq

\* C20 witness: verifyDataIntegrity returned false on two plans with distinct
\* ids and with titles, one of them without a createdAt, and the list still
\* holds that plan.
C20_Witness ==
    /\ ev.op = "verifyDataIntegrity" /\ ~ev.ok
    /\ Len(Plans) = 2 /\ Plans[1].id = OldId /\ Plans[2].id = GhostId
    /\ Plans[1].title = "A" /\ Plans[2].title = "A"
    /\ Plans[1].createdAt = 0 /\ Plans[2].createdAt = NoStamp

\* C21: when the URL or the key is missing, executeSupabaseOperation does not
\* call the operation and settles as the fallback does, or with null when no
\* fallback is given; when both are set and the operation throws, whatever
\* it throws, the call settles in that same way and never with what the
\* operation threw; and an operation that resolves gives its value.
C21_ConfigurationAbsent ==
    LET expected == CASE exec.fallback.kind = "none" -> [kind |-> "resolved", value |-> Null]
                      [] exec.fallback.kind = "return" ->
                            [kind |-> "resolved", value |-> exec.fallback.value]
                      [] exec.fallback.kind = "throw" ->
                            [kind |-> "rejected", value |-> Null]
        res == executeSupabaseOperation(env, exec.operation, exec.fallback)
        conf == env.url # "" /\ env.key # ""
    IN  /\ ~conf =>
              /\ ~res.invoked
              /\ res.kind = expected.kind /\ res.value = expected.value
        /\ (conf /\ exec.operation.kind = "reject") =>
              /\ res.invoked
              /\ res.kind = expected.kind /\ res.value = expected.value
              /\ res.kind = "rejected" => res.error \notin OperationErrors
        /\ (conf /\ exec.operation.kind = "resolve") =>
              /\ res.invoked
              /\ res.kind = "resolved" /\ res.value = exec.operation.value
        /\ res.kind = "rejected" => res.error = FallbackError
        /\ exec.done => exec.result = res

\* C21 witness: with the URL set and the key missing, a call whose operation
\* would have resolved with a session returned the fallback's value, and the
\* operation was not called.
C21_Witness ==
    /\ exec.done /\ env.url # "" /\ env.key = ""
    /\ exec.operation.kind = "resolve" /\ exec.operation.value = "session"
    /\ exec.fallback.kind = "return" /\ exec.fallback.value = "true"
    /\ ~exec.result.invoked
    /\ exec.result.kind = "resolved" /\ exec.result.value = "true"

\* log2 is log with n entries put in front of it, cut to the newest LOG_CAP.
Added(log, log2, n) ==
    /\ Len(log2) = Min(Len(log) + n, LOG_CAP)
    /\ SubSeq(log2, n + 1, Len(log2)) = SubSeq(log, 1, Len(log2) - n)

\* C22 as stated: every step of savePlan or savePlanSync puts one 'created'
\* entry in front of the activity log, and every step of updatePlan or
\* updatePlanSync that finds its plan puts at least one entry in front of
\* it, whatever fields the update carries.
C22_ActivityLoggedAsStated ==
    [][/\ \A planData \in PlanData, t \in Times, r \in Suffixes :
             (SavePlan(planData, t, r) \/ SavePlanSync(planData, t, r)) =>
                Added(activity, activity', 1) /\ activity'[1].type = "created"
       /\ \A id \in UpdateIds, u \in UpdatesFor(Plans), t \in Times :
             (/\ id \in Ids(Plans)
              /\ UpdatePlan(id, u, t) \/ UpdatePlanSync(id, u, t)) =>
                \E n \in {1, 2} : Added(activity, activity', n)]_vars

\* C22 amended: every step of savePlan and savePlanSync puts one 'created'
\* entry with the plan's title and the time of the call in front of the
\* activity log; every step of updatePlan and updatePlanSync on a stored plan
\* returns true and puts one or two entries in front of the log, the newest
\* of type 'updated', when the update carries completedTasks, and leaves the
\* log as it was when it does not.
C22_ActivityLogged ==
    [][/\ (ev'.op \in {"savePlan", "savePlanSync"} /\ nOps' = nOps + 1) =>
             /\ ev'.ok
             /\ Added(activity, activity', 1)
             /\ activity'[1].type = "created"
             /\ activity'[1].planTitle \in SaveTitles
             /\ activity'[1].planTitle = getAllPlans(stored')[Len(Plans) + 1].title
             /\ activity'[1].timestamp = now'
       /\ \A c \in calls' \ calls :
             c.op = "update" =>
                \A u \in UpdatesFor(Plans) :
                    (IF c.sync THEN UpdatePlanSync(c.id, u, now')
                     ELSE UpdatePlan(c.id, u, now')) =>
                        /\ ev'.ok
                        /\ IF "completedTasks" \in u.has
                           THEN /\ \E n \in {1, 2} : Added(activity, activity', n)
                                /\ activity'[1].type = "updated"
                                /\ activity'[1].timestamp = now'
                           ELSE activity' = activity]_vars

\* C22 witness: an update that carried a title and no completedTasks returned
\* true, the plan has the new title, and the activity log is still empty.
C22_Witness ==
    /\ ev.op \in {"updatePlan", "updatePlanSync"} /\ ev.ok
    /\ Len(Plans) = 1 /\ Plans[1].title = "B"
    /\ activity = <<>>

AsyncOps == {"savePlan", "updatePlan", "deletePlan"}
SyncOps == {"savePlanSync", "updatePlanSync", "deletePlanSync",
            "updateCompletedTasks"}

\* C23: in every step in which a remote save, update or delete is issued the
\* local phase has succeeded and its write is in the Local Store (the plan
\* sent is stored; the plan deleted is gone), and the Remote Store is still
\* untouched; the step in which savePlan, updatePlan or deletePlan returns
\* is the one in which its remote promise settles, unless its local phase
\* failed and nothing was issued; and a Sync variant returns in the step of
\* its local write, its remote promise still pending.
C23_TwoPhaseOrdering ==
    [][/\ \A c \in calls' \ calls :
             c.op # "load" =>
                /\ ev'.ok /\ ~ev'.threw
                /\ remote' = remote
                /\ c.op \in {"save", "update"} =>
                      c.plans[1] \in PlanSet(getAllPlans(stored'))
                /\ c.op = "delete" =>
                      \E k \in 1..Len(Plans) :
                          /\ Plans[k].id = c.id
                          /\ stored' = Array(Without(Plans, k))
                /\ IF c.sync THEN ev'.op \in SyncOps /\ ev'.ph = "return"
                   ELSE ev'.op \in AsyncOps /\ ev'.ph = "local"
       /\ (ev'.op \in AsyncOps /\ ev'.ph # "local") =>
             \/ \E c \in calls \ calls' :
                   /\ ~c.sync /\ AsyncName(c.op) = ev'.op
                   /\ ev'.outcome \in Outcomes
                   /\ calls' = calls \ {c}
             \/ /\ ~ev'.ok /\ ev'.op # "savePlan"
                /\ calls' = calls /\ stored' = stored /\ remote' = remote
       /\ ev'.op \in SyncOps =>
             /\ ev'.ph \in {"return", "invalid"}
             /\ nOps' = nOps + 1
             /\ remote' = remote
             /\ IF ev'.ok
                THEN \E c \in calls' \ calls : c.sync /\ calls' = calls \cup {c}
                ELSE calls' = calls /\ stored' = stored]_vars

\* C23 witness: savePlan returned after its remote save was rejected, while
\* the remote promise a Sync variant left behind is still pending and the
\* plans of both are stored.
C23_Witness ==
    /\ ev.op = "savePlan" /\ ev.ph = "return" /\ ev.outcome = "fail"
    /\ \E c \in calls : c.sync
    /\ AsyncCalls = {}
    /\ Len(Plans) >= 2

\* C24: with savePlan, updatePlan and deletePlan running concurrently, every
\* local phase works on the list the local phases before it left: a save
\* keeps every record and appends its own; an update that finds its plan
\* changes that record alone, giving it the fields it carries and keeping
\* the others of that record; a delete that finds its plan removes that
\* record alone; and the step in which a call resumes after its await and
\* returns writes nothing, whatever ran while it waited.
C24_NoLostLocalUpdates ==
    [][/\ \A planData \in PlanData, t \in Times, r \in Suffixes :
             SavePlan(planData, t, r) =>
                LET after == getAllPlans(stored')
                IN  /\ Len(after) = Len(Plans) + 1
                    /\ \A j \in 1..Len(Plans) : after[j] = Plans[j]
                    /\ after[Len(after)].id = NewId(t, r)
                    /\ after[Len(after)].title = planData.title
       /\ \A id \in UpdateIds, u \in UpdatesFor(Plans), t \in Times :
             UpdatePlan(id, u, t) =>
                LET after == getAllPlans(stored')
                    k == findIndex(Plans, id)
                IN  IF k = 0 THEN stored' = stored
                    ELSE /\ Len(after) = Len(Plans)
                         /\ \A j \in 1..Len(Plans) : j # k => after[j] = Plans[j]
                         /\ after[k].title = IF "title" \in u.has
                                             THEN u.title ELSE Plans[k].title
                         /\ after[k].completedTasks =
                               IF "completedTasks" \in u.has
                               THEN u.completedTasks ELSE Plans[k].completedTasks
                         /\ after[k].updatedAt = t
       /\ \A id \in DeleteIds :
             DeletePlan(id) =>
                IF IsString(id) /\ Trim(id) \in Ids(Plans)
                THEN \E k \in 1..Len(Plans) :
                        /\ Plans[k].id = Trim(id)
                        /\ stored' = Array(Without(Plans, k))
                ELSE stored' = stored
       /\ \A c \in calls, outcome \in Outcomes :
             AsyncReturn(c, outcome) => stored' = stored /\ activity' = activity]_vars

\* C24 witness: savePlan has returned while an updatePlan called during its
\* await is still waiting, and the Local Store holds both the plan saved and
\* the title the update gave the older plan.
C24_Witness ==
    /\ ev.op = "savePlan" /\ ev.ph = "return"
    /\ \E c \in AsyncCalls : c.op = "update"
    /\ Len(Plans) = 2
    /\ Plans[1].id = OldId /\ Plans[1].title = "B"
    /\ Plans[2].id \in issued

\* C25: a step of updateCompletedTasks(planId, tasks) with an empty planId or
\* with tasks that is no array returns false, throws nothing and changes
\* nothing; with an array and the id of a stored plan it leaves the plan list
\* and the activity log that updatePlanSync(planId, {completedTasks: tasks})
\* leaves, in which the target plan differs from what it was in
\* completedTasks and updatedAt alone and every other plan is as it was.
C25_CompletedTasksWrapper ==
    [][\A planId \in UpdateIds \cup {NullId}, tasks \in TaskArgs, t \in Times :
          UpdateCompletedTasks(planId, tasks, t) =>
             IF Falsy(planId) \/ ~tasks.array
             THEN /\ ~ev'.ok /\ ~ev'.threw
                  /\ stored' = stored /\ activity' = activity /\ calls' = calls
             ELSE planId \in Ids(Plans) =>
                     LET sync == updatePlanSync(stored, activity, planId,
                                                TasksUpdate(tasks.val), t)
                         k == findIndex(Plans, planId)
                         after == getAllPlans(stored')
                     IN  /\ ev'.ok /\ ~ev'.threw
                         /\ stored' = sync.stored /\ activity' = sync.activity
                         /\ Len(after) = Len(Plans)
                         /\ \A j \in 1..Len(Plans) : j # k => after[j] = Plans[j]
                         /\ after[k] = [Plans[k] EXCEPT
                                           !.completedTasks = tasks.val,
                                           !.updatedAt = t]]_vars

\* C26: every step of deletePlan and deletePlanSync, with any id, found or
\* not, valid or not, leaves the activity log exactly as it was: the step up
\* to the await, and the step in which deletePlan returns after it, however
\* the remote delete settled.  No entry is removed, changed or added.
C26_ActivityLogSurvivesDeletion ==
    [][/\ ev'.op \in {"deletePlan", "deletePlanSync"} => activity' = activity
       /\ \A c \in calls' \ calls : c.op = "delete" => activity' = activity
       /\ \A c \in calls \ calls' : c.op = "delete" => activity' = activity]_vars

\* C26 witness: a delete returned true for the only plan saved in the run;
\* the plan is gone, and the activity log still is the one 'created' entry
\* that names it.
C26_Witness ==
    /\ ev.op \in {"deletePlan", "deletePlanSync"} /\ ev.ph = "return" /\ ev.ok
    /\ Cardinality(issued) = 1
    /\ \A id \in issued : id \notin Ids(Plans)
    /\ Len(activity) = 1
    /\ activity[1].type = "created" /\ activity[1].planTitle = "A"

\* C27: once the effect has run with Supabase not configured, loading is
\* false; when it is configured, loading becomes false after the session
\* check has settled, whether it gave a session, none, or failed with any
\* error, and is false when checkSession is done; and no step sets loading
\* back to true.
C27_LoadingEventuallyFalse ==
    /\ []((auth.mounted /\ ~isSupabaseConfigured(env)) => ~auth.loading)
    /\ [](auth.check = "done" => ~auth.loading)
    /\ (auth.check = "settled") ~> (~auth.loading /\ auth.check = "done")
    /\ (~auth.mounted) ~> (~auth.loading \/ auth.check = "pending")
    /\ [][~auth.loading => ~auth'.loading]_vars

\* C27 witness: the session check failed with an error that is no network
\* error, checkSession is done, no auth state change was delivered, and
\* loading is false with no user.
C27_Witness ==
    /\ auth.check = "done" /\ auth.listener = "subscribed" /\ auth.events = 0
    /\ exec.done /\ exec.operation.kind = "reject"
    /\ exec.operation.error = Thrown(<<"Invalid", "login", "credentials">>, "none")
    /\ ~auth.loading /\ auth.user = NoUser

=============================================================================
